---- MODULE Spec2Model ----
(***************************************************************************)
(* A model of ms_agent/config/config.py: the configuration resolution      *)
(* engine (Config.from_task, Config._update_config, Config.parse_args,     *)
(* Config.fill_missing_fields, Config.is_workflow and                      *)
(* Config.convert_mcp_servers_to_json).                                    *)
(*                                                                         *)
(* Strings are sequences of symbols.  The symbols "<", ">" and "-" are the *)
(* characters themselves; every other symbol stands for a non-empty run of *)
(* characters that contains none of those three, so startswith, endswith   *)
(* and slicing are computed on the sequence exactly as Python computes     *)
(* them on the characters.                                                 *)
(*                                                                         *)
(* A configuration tree (OmegaConf DictConfig / ListConfig / plain value)  *)
(* is a record [t, v]: t is the node type and v its payload: the entries   *)
(* <<[n |-> name, v |-> tree], ...>> of a mapping in insertion order, the  *)
(* elements of a sequence, or the value of a scalar.                       *)
(***************************************************************************)
EXTENDS Integers, Sequences, FiniteSets, TLC

VARIABLES
    pc,           \* where from_task (or a direct call) stands
    path,         \* config_dir_or_id: what it names and the local directory
    fs,           \* the candidate files of the directory: name -> document
    config,       \* the configuration tree
    name,         \* the file name the document was loaded from
    envs,         \* the overrides of Env.load_env (the extra of a direct call)
    argv,         \* the command line left to parse_args ("unknown")
    dict_config,  \* the overrides parse_args returned
    err,          \* the exception that ended the run, "none" if none
    base,         \* the document as loaded (the argument of a direct call)
    passes,       \* the merge passes run so far, in order
    ret           \* the value a direct call returned

vars == <<pc, path, fs, config, name, envs, argv, dict_config, err, base,
          passes, ret>>

----------------------------------------------------------------------------
(* Values *)

Str(s) == [t |-> "str", v |-> s]
Num(n) == [t |-> "int", v |-> n]
Bool(b) == [t |-> "bool", v |-> b]
Null == [t |-> "null", v |-> <<>>]
Map(e) == [t |-> "map", v |-> e]
List(e) == [t |-> "seq", v |-> e]
Entry(n, v) == [n |-> n, v |-> v]

\* isinstance(value, BaseContainer): a DictConfig or a ListConfig
IsContainer(x) == x.t \in {"map", "seq"}

\* a one-symbol string
W(s) == <<s>>

\* '<' + k + '>'
Ph(k) == <<"<">> \o k \o <<">">>

\* the absent value of a lookup, of a variable not yet assigned (Python None)
None == [t |-> "none", v |-> <<>>]

\* the empty dict
EmptyDict == [k \in {} |-> <<>>]

Range(s) == {s[i] : i \in DOMAIN s}

Keys(m) == {m.v[i].n : i \in DOMAIN m.v}

HasKey(m, k) == m.t = "map" /\ k \in Keys(m)

IndexOf(m, k) == CHOOSE i \in DOMAIN m.v : m.v[i].n = k

\* getattr(m, k, None) on a mapping
Get(m, k) == IF HasKey(m, k) THEN m.v[IndexOf(m, k)].v ELSE None

\* setattr(m, k, x): replaces the value in place, or appends a new entry
Set(m, k, x) ==
    IF HasKey(m, k)
    THEN Map([m.v EXCEPT ![IndexOf(m, k)].v = x])
    ELSE Map(Append(m.v, Entry(k, x)))

----------------------------------------------------------------------------
(* Config._update_config *)

StartsWith(s, p) == Len(s) >= Len(p) /\ SubSeq(s, 1, Len(p)) = p

EndsWith(s, p) == Len(s) >= Len(p) /\ SubSeq(s, Len(s) - Len(p) + 1, Len(s)) = p

\* value[1:-1]
Inner(s) == SubSeq(s, 2, Len(s) - 1)

\* isinstance(value, str) and value.startswith('<') and value.endswith('>')
\* and value[1:-1] in extra
IsPlaceholder(value, extra) ==
    /\ value.t = "str"
    /\ StartsWith(value.v, <<"<">>)
    /\ EndsWith(value.v, <<">">>)
    /\ Inner(value.v) \in DOMAIN extra

\* A scalar entry (name, value) of a DictConfig.  The result is the entry's
\* new value and whether the step returned (ok) or raised KeyError.
UpdateItemSkipDirect(nm, value, extra) ==
    IF IsPlaceholder(value, extra)
    THEN IF nm \in DOMAIN extra
         THEN [v |-> Str(extra[nm]), ok |-> TRUE]
         ELSE [v |-> value, ok |-> FALSE]
    ELSE [v |-> value, ok |-> TRUE]

UpdateItem(nm, value, extra) ==
    LET direct == IF nm \in DOMAIN extra THEN Str(extra[nm]) ELSE value
    IN  IF IsPlaceholder(value, extra)
        THEN IF nm \in DOMAIN extra
             THEN [v |-> Str(extra[nm]), ok |-> TRUE]
             ELSE [v |-> direct, ok |-> FALSE]
        ELSE [v |-> direct, ok |-> TRUE]

\* A scalar element of a ListConfig.
UpdateElementFixpoint(value, extra) ==
    IF IsPlaceholder(value, extra)
    THEN LET once == Str(extra[Inner(value.v)])
         IN  IF IsPlaceholder(once, extra)
             THEN Str(extra[Inner(once.v)])
             ELSE once
    ELSE value

UpdateElement(value, extra) ==
    IF IsPlaceholder(value, extra)
    THEN Str(extra[Inner(value.v)])
    ELSE value

RECURSIVE traverse_config(_, _)
RECURSIVE TraverseDict(_, _, _)
RECURSIVE TraverseList(_, _, _)

\* for name, value in _config.items(): ... from entry i on
TraverseDict(e, i, extra) ==
    IF i > Len(e)
    THEN [c |-> e, ok |-> TRUE]
    ELSE LET r == IF IsContainer(e[i].v)
                  THEN LET s == traverse_config(e[i].v, extra)
                       IN  [v |-> s.c, ok |-> s.ok]
                  ELSE UpdateItem(e[i].n, e[i].v, extra)
             e2 == [e EXCEPT ![i].v = r.v]
         IN  IF r.ok THEN TraverseDict(e2, i + 1, extra)
                     ELSE [c |-> e2, ok |-> FALSE]

\* for idx in range(len(_config)): ... from element i on
TraverseList(e, i, extra) ==
    IF i > Len(e)
    THEN [c |-> e, ok |-> TRUE]
    ELSE IF IsContainer(e[i])
         THEN LET s == traverse_config(e[i], extra)
                  e2 == [e EXCEPT ![i] = s.c]
              IN  IF s.ok THEN TraverseList(e2, i + 1, extra)
                          ELSE [c |-> e2, ok |-> FALSE]
         ELSE TraverseList([e EXCEPT ![i] = UpdateElement(e[i], extra)],
                           i + 1, extra)

traverse_config(c, extra) ==
    IF c.t = "map"
    THEN LET r == TraverseDict(c.v, 1, extra) IN [c |-> Map(r.c), ok |-> r.ok]
    ELSE IF c.t = "seq"
         THEN LET r == TraverseList(c.v, 1, extra)
              IN  [c |-> List(r.c), ok |-> r.ok]
         ELSE [c |-> c, ok |-> TRUE]

\* The tree after the call and whether the call returned or raised.
update_config(c, extra) ==
    IF DOMAIN extra = {}
    THEN [c |-> c, ok |-> TRUE]
    ELSE traverse_config(c, extra)

----------------------------------------------------------------------------
(* Config.parse_args *)

\* range(1, len(unknown) - 1, 2): the first index (Python counts from 0)
\* and the step
ArgStart == 1

ArgStep == 2

\* the '--' prefix of a key
Prefix == <<"-", "-">>

RECURSIVE ParseFrom(_, _, _)
\* the loop from Python index idx on, with the dict built so far; ok is
\* FALSE when the assert on the key failed
ParseFrom(unknown, idx, d) ==
    IF idx >= Len(unknown) - 1
    THEN [d |-> d, ok |-> TRUE]
    ELSE LET key == unknown[idx + 1]
             value == unknown[idx + 2]
         IN  IF ~StartsWith(key, Prefix)
             THEN [d |-> d, ok |-> FALSE]
             ELSE ParseFrom(unknown, idx + ArgStep,
                            (SubSeq(key, 3, Len(key)) :> value) @@ d)

parse_args(unknown) ==
    IF unknown = <<>>
    THEN [d |-> EmptyDict, ok |-> TRUE]
    ELSE ParseFrom(unknown, ArgStart, EmptyDict)

----------------------------------------------------------------------------
(* Config.fill_missing_fields *)

\* not hasattr(config, f) or config.f is None
Missing(c, f) == ~HasKey(c, f) \/ Get(c, f) = Null

\* line 134 without its condition
fill_missing_fields_reset(c) ==
    LET c1 == Set(c, W("tools"), Map(<<>>))
    IN  IF Missing(c1, W("callbacks"))
        THEN Set(c1, W("callbacks"), List(<<>>))
        ELSE c1

fill_missing_fields(c) ==
    LET c1 == IF Missing(c, W("tools")) THEN Set(c, W("tools"), Map(<<>>)) ELSE c
    IN  IF Missing(c1, W("callbacks"))
        THEN Set(c1, W("callbacks"), List(<<>>))
        ELSE c1

----------------------------------------------------------------------------
(* Config.is_workflow and Config.convert_mcp_servers_to_json *)

\* an exception raised instead of a value returned
Raised(e) == [t |-> "error", v |-> W(e)]

\* line 150 without the assert
is_workflow_unchecked(c) ==
    Bool(Get(c, W("name")) \in {Str(W("workflow.yaml")), Str(W("workflow.yml"))})

\* config.name raises AttributeError for a key the DictConfig does not hold
\* (OmegaConf 2.1 and later); the assert fails on a null name
is_workflow(c) ==
    IF ~HasKey(c, W("name"))
    THEN Raised("AttributeError")
    ELSE IF Get(c, W("name")) = Null
         THEN Raised("AssertionError")
         ELSE Bool(Get(c, W("name")) \in
                      {Str(W("workflow.yaml")), Str(W("workflow.yml"))})

\* bool(x) of Python; a key that is absent reads as None
Truthy(x) ==
    CASE x.t = "bool" -> x.v
      [] x.t = "int" -> x.v # 0
      [] x.t \in {"str", "map", "seq"} -> x.v # <<>>
      [] OTHER -> FALSE

\* getattr(server_config, 'mcp', False)
McpEnabledDefaultFalse(server_config) ==
    HasKey(server_config, W("mcp")) /\ Truthy(Get(server_config, W("mcp")))

\* getattr(server_config, 'mcp', True)
McpEnabled(server_config) ==
    IF HasKey(server_config, W("mcp"))
    THEN Truthy(Get(server_config, W("mcp")))
    ELSE TRUE

IsServer(e) == McpEnabled(e.v)

\* the Python dict returned; config.tools.items() raises when tools is a
\* non-empty value that is no mapping
convert_mcp_servers_to_json(c) ==
    LET tools == Get(c, W("tools"))
    IN  IF ~Truthy(tools)
        THEN Map(<<Entry(W("mcpServers"), Map(<<>>))>>)
        ELSE IF tools.t # "map"
             THEN Raised("AttributeError")
             ELSE Map(<<Entry(W("mcpServers"), Map(SelectSeq(tools.v, IsServer)))>>)

----------------------------------------------------------------------------
(* Config.from_task *)

supported_config_names ==
    <<W("workflow.yaml"), W("workflow.yml"), W("agent.yaml"), W("agent.yml")>>

\* os.path.exists(os.path.join(config_dir_or_id, _name))
Exists(f, n) == f[n] # None

\* the candidate the loop over supported_config_names stops at
LastCandidate(f) ==
    CHOOSE i \in DOMAIN supported_config_names :
        /\ Exists(f, supported_config_names[i])
        /\ \A j \in DOMAIN supported_config_names :
              j > i => ~Exists(f, supported_config_names[j])

FirstCandidate(f) ==
    CHOOSE i \in DOMAIN supported_config_names :
        /\ Exists(f, supported_config_names[i])
        /\ \A j \in 1..(i - 1) : ~Exists(f, supported_config_names[j])

AnyCandidate(f) ==
    \E i \in DOMAIN supported_config_names : Exists(f, supported_config_names[i])

\* lines 81-82: the path does not exist locally; snapshot_download returns
\* the local directory of the repository
Download ==
    /\ pc = "start"
    /\ path.kind = "remote"
    /\ path' = [path EXCEPT !.kind = "dir", !.dir = W("cache_dir")]
    /\ UNCHANGED <<pc, fs, config, name, envs, argv, dict_config, err, base,
                   passes, ret>>

\* lines 81-82: snapshot_download raises
DownloadFails ==
    /\ pc = "start"
    /\ path.kind = "remote"
    /\ pc' = "failed"
    /\ err' = "DownloadError"
    /\ UNCHANGED <<path, fs, config, name, envs, argv, dict_config, base,
                   passes, ret>>

\* lines 88-91: the path is a file
LoadFile ==
    /\ pc = "start"
    /\ path.kind = "file"
    /\ config' = fs[path.file]
    /\ base' = fs[path.file]
    /\ name' = path.file
    /\ path' = [path EXCEPT !.kind = "dir", !.file = <<>>]
    /\ pc' = "located"
    /\ UNCHANGED <<fs, envs, argv, dict_config, err, passes, ret>>

\* lines 92-104: the path is a directory
LoadFromDir ==
    /\ pc = "start"
    /\ path.kind = "dir"
    /\ IF AnyCandidate(fs)
       THEN LET n == supported_config_names[FirstCandidate(fs)]
            IN  /\ config' = fs[n]
                /\ base' = fs[n]
                /\ name' = n
                /\ pc' = "located"
                /\ err' = err
       ELSE /\ pc' = "failed"
            /\ err' = "NotFound"
            /\ UNCHANGED <<config, base, name>>
    /\ UNCHANGED <<path, fs, envs, argv, dict_config, passes, ret>>

\* lines 107-108: envs = Env.load_env(env); cls._update_config(config, envs)
EnvPass ==
    /\ pc = "located"
    /\ LET r == update_config(config, envs)
       IN  /\ config' = r.c
           /\ pc' = IF r.ok THEN "env_merged" ELSE "failed"
           /\ err' = IF r.ok THEN err ELSE "KeyError"
    /\ passes' = Append(passes, "env")
    /\ UNCHANGED <<path, fs, name, envs, argv, dict_config, base, ret>>

\* line 111: _dict_config = cls.parse_args()
ParseArgs ==
    /\ pc = "env_merged"
    /\ LET r == parse_args(argv)
       IN  IF r.ok
           THEN /\ dict_config' = r.d
                /\ pc' = "args_parsed"
                /\ err' = err
           ELSE /\ pc' = "failed"
                /\ err' = "MalformedArguments"
                /\ UNCHANGED dict_config
    /\ UNCHANGED <<path, fs, config, name, envs, argv, base, passes, ret>>

\* line 112 with the overrides of line 108 passed again
CliPassWithEnvs ==
    /\ pc = "args_parsed"
    /\ LET r == update_config(config, envs)
       IN  /\ config' = r.c
           /\ pc' = IF r.ok THEN "cli_merged" ELSE "failed"
           /\ err' = IF r.ok THEN err ELSE "KeyError"
    /\ passes' = Append(passes, "cli")
    /\ UNCHANGED <<path, fs, name, envs, argv, dict_config, base, ret>>

\* line 112: cls._update_config(config, _dict_config)
CliPass ==
    /\ pc = "args_parsed"
    /\ LET r == update_config(config, dict_config)
       IN  /\ config' = r.c
           /\ pc' = IF r.ok THEN "cli_merged" ELSE "failed"
           /\ err' = IF r.ok THEN err ELSE "KeyError"
    /\ passes' = Append(passes, "cli")
    /\ UNCHANGED <<path, fs, name, envs, argv, dict_config, base, ret>>

\* lines 115-120: local_dir, name, fill_missing_fields, return
Finish ==
    /\ pc = "cli_merged"
    /\ config' = fill_missing_fields(
                    Set(Set(config, W("local_dir"), Str(path.dir)),
                        W("name"), Str(name)))
    /\ pc' = "done"
    /\ UNCHANGED <<path, fs, name, envs, argv, dict_config, err, base,
                   passes, ret>>

----------------------------------------------------------------------------
(* Positions in a tree *)

\* the i-th child of a container
Child(c, i) == IF c.t = "map" THEN c.v[i].v ELSE c.v[i]

RECURSIVE Paths(_)
\* the positions of a tree: the index paths from the root
Paths(c) ==
    {<<>>} \cup
    (IF IsContainer(c)
     THEN UNION {{<<i>> \o p : p \in Paths(Child(c, i))} : i \in DOMAIN c.v}
     ELSE {})

RECURSIVE At(_, _)
At(c, p) == IF p = <<>> THEN c ELSE At(Child(c, Head(p)), Tail(p))

Front(p) == SubSeq(p, 1, Len(p) - 1)

Last(p) == p[Len(p)]

\* the positions of the scalar entries of the mappings of a tree
ItemPaths(c) ==
    {p \in Paths(c) : p # <<>> /\ At(c, Front(p)).t = "map"
                               /\ ~IsContainer(At(c, p))}

\* the positions of the scalar elements of the sequences of a tree
ElementPaths(c) ==
    {p \in Paths(c) : p # <<>> /\ At(c, Front(p)).t = "seq"
                               /\ ~IsContainer(At(c, p))}

\* the name of the mapping entry at position p
NameAt(c, p) == At(c, Front(p)).v[Last(p)].n

RECURSIVE Shape(_)
\* a tree with its scalars erased: node types, lengths, entry names, order
Shape(c) ==
    IF c.t = "map"
    THEN Map([i \in DOMAIN c.v |-> Entry(c.v[i].n, Shape(c.v[i].v))])
    ELSE IF c.t = "seq"
         THEN List([i \in DOMAIN c.v |-> Shape(c.v[i])])
         ELSE Null

----------------------------------------------------------------------------
(* Inputs of a direct call of Config._update_config *)

\* the most nodes (containers and scalars) of a generated tree
MaxNodes == 4

MergeNames == {W("a"), W("b")}

MergeScalars == {Str(Ph(W("a"))), Str(Ph(W("b"))), Str(W("x")), Num(3)}

MergeValues == {W("v"), Ph(W("b"))}

\* the sequences of distinct names of length n
NameSeqs(n) ==
    {ns \in [1..n -> MergeNames] : \A i, j \in 1..n : ns[i] = ns[j] => i = j}

RECURSIVE TreesOfSize(_)
RECURSIVE ForestsOfSize(_)

\* the sequences of trees with m nodes in all
ForestsOfSize(m) ==
    IF m = 0
    THEN {<<>>}
    ELSE UNION {{<<c>> \o f : c \in TreesOfSize(i), f \in ForestsOfSize(m - i)}
                : i \in 1..m}

\* the trees with exactly n nodes
TreesOfSize(n) ==
    IF n = 1
    THEN MergeScalars \cup {Map(<<>>), List(<<>>)}
    ELSE LET fo == ForestsOfSize(n - 1)
         IN  {List(f) : f \in fo} \cup
             UNION {{Map([i \in DOMAIN f |-> Entry(ns[i], f[i])])
                     : ns \in NameSeqs(Len(f))} : f \in fo}

MergeTrees == UNION {TreesOfSize(n) : n \in 1..MaxNodes}

MergeExtras == UNION {[d -> MergeValues] : d \in SUBSET MergeNames}

\* the end-to-end scenario: {model: "<model_name>", retries: 3} with the
\* overrides {model_name: "qwen-max", retries: "5"}
ScenarioDoc ==
    Map(<<Entry(W("model"), Str(Ph(W("model_name")))),
          Entry(W("retries"), Num(3))>>)

ScenarioCli ==
    [k \in {W("model_name"), W("retries")} |->
        IF k = W("model_name") THEN W("qwen-max") ELSE W("5")]

MergeInputs ==
    {[c |-> c, extra |-> e] : c \in MergeTrees, e \in MergeExtras}
    \cup {[c |-> ScenarioDoc, extra |-> ScenarioCli]}

InitMerge ==
    /\ \E i \in MergeInputs :
          /\ config = i.c
          /\ base = i.c
          /\ envs = i.extra
    /\ pc = "call"
    /\ path = None
    /\ fs = EmptyDict
    /\ name = None
    /\ argv = <<>>
    /\ dict_config = EmptyDict
    /\ err = "none"
    /\ passes = <<>>
    /\ ret = None

\* Config._update_config(config, extra) called on a tree
UpdateConfigCall ==
    /\ pc = "call"
    /\ LET r == update_config(config, envs)
       IN  /\ config' = r.c
           /\ err' = IF r.ok THEN "none" ELSE "KeyError"
    /\ pc' = "returned"
    /\ passes' = Append(passes, "extra")
    /\ UNCHANGED <<path, fs, name, envs, argv, dict_config, base, ret>>

NextMerge == UpdateConfigCall

SpecMerge == InitMerge /\ [][NextMerge]_vars

----------------------------------------------------------------------------
(* Inputs of Config.from_task *)

\* the most tokens of a command line
MaxArgs == 3

\* {a: "x", name: "old", local_dir: "old", args: ["<a>", "y"]}
DocArgs ==
    Map(<<Entry(W("a"), Str(W("x"))),
          Entry(W("name"), Str(W("old"))),
          Entry(W("local_dir"), Str(W("old"))),
          Entry(W("args"), List(<<Str(Ph(W("a"))), Str(W("y"))>>))>>)

\* {model: "<a>", retries: 3}
DocModel ==
    Map(<<Entry(W("model"), Str(Ph(W("a")))), Entry(W("retries"), Num(3))>>)

Docs == {DocArgs, DocModel}

EnvMaps ==
    {EmptyDict,
     W("a") :> W("e"),
     W("a") :> Ph(W("name")),
     (W("a") :> W("e")) @@ (W("name") :> W("n")) @@ (W("local_dir") :> W("l"))}

Tokens == {Prefix \o W("a"), Prefix \o W("name"), W("c")}

ArgLists == UNION {[1..n -> Tokens] : n \in 0..MaxArgs}

FileSystems == [Range(supported_config_names) -> Docs \cup {None}]

\* what config_dir_or_id names (kind: an existing directory, an existing
\* file, or nothing local, a repository id), its directory and file name;
\* "given" keeps the kind the caller passed
PathsOf(f) ==
    {[kind |-> k, given |-> k, dir |-> W("task_dir"), file |-> <<>>]
     : k \in {"dir", "remote"}}
    \cup {[kind |-> "file", given |-> "file", dir |-> W("task_dir"), file |-> n]
          : n \in {m \in DOMAIN f : Exists(f, m)}}

Init ==
    /\ fs \in FileSystems
    /\ path \in PathsOf(fs)
    /\ envs \in EnvMaps
    /\ argv \in ArgLists
    /\ pc = "start"
    /\ config = None
    /\ base = None
    /\ name = None
    /\ dict_config = EmptyDict
    /\ err = "none"
    /\ passes = <<>>
    /\ ret = None

Next ==
    \/ Download
    \/ DownloadFails
    \/ LoadFile
    \/ LoadFromDir
    \/ EnvPass
    \/ ParseArgs
    \/ CliPass
    \/ Finish

Spec == Init /\ [][Next]_vars

----------------------------------------------------------------------------
(* Direct calls of fill_missing_fields, is_workflow and
   convert_mcp_servers_to_json on a configuration *)

\* the most tools of a configuration
MaxTools == 3

ToolNames == <<"a", "b", "c", "d", "e", "f">>

\* the mcp attribute of a tool: absent (None) or a value
McpValues == {None, Bool(TRUE), Bool(FALSE), Null, Num(1)}

\* tool i: {mcp: m, x: i}, or {x: i} without the attribute
Tool(i, m) ==
    Map((IF m = None THEN <<>> ELSE <<Entry(W("mcp"), m)>>)
        \o <<Entry(W("x"), Num(i))>>)

RECURSIVE ToolEntries(_)
\* the entry lists over the tools 1..n, each tool present or not
ToolEntries(n) ==
    IF n = 0
    THEN {<<>>}
    ELSE LET rest == ToolEntries(n - 1)
         IN  rest \cup {Append(r, Entry(W(ToolNames[n]), Tool(n, m)))
                        : r \in rest, m \in McpValues}

\* a field of the document: absent (None) or one of these values
ToolsValues == {None, Null} \cup {Map(e) : e \in ToolEntries(MaxTools)}

CallbacksValues == {None, Null, List(<<>>), List(<<Str(W("cb"))>>)}

NameValues ==
    {None, Null, Str(W("my.yaml"))} \cup
    {Str(supported_config_names[i]) : i \in DOMAIN supported_config_names}

Field(k, x) == IF x = None THEN <<>> ELSE <<Entry(W(k), x)>>

CallConfigs ==
    {Map(<<Entry(W("llm"), Str(W("x")))>> \o Field("name", n)
         \o Field("tools", t) \o Field("callbacks", cb))
     : n \in NameValues, t \in ToolsValues, cb \in CallbacksValues}

InitCalls ==
    /\ config \in CallConfigs
    /\ base = config
    /\ pc = "call"
    /\ path = None
    /\ fs = EmptyDict
    /\ name = None
    /\ envs = EmptyDict
    /\ argv = <<>>
    /\ dict_config = EmptyDict
    /\ err = "none"
    /\ passes = <<>>
    /\ ret = None

\* Config.is_workflow(config)
IsWorkflowCall ==
    /\ pc = "call"
    /\ ret' = is_workflow(config)
    /\ pc' = "is_workflow"
    /\ UNCHANGED <<path, fs, config, name, envs, argv, dict_config, err, base,
                   passes>>

\* Config.convert_mcp_servers_to_json(config)
ConvertCall ==
    /\ pc = "call"
    /\ ret' = convert_mcp_servers_to_json(config)
    /\ pc' = "convert_mcp"
    /\ UNCHANGED <<path, fs, config, name, envs, argv, dict_config, err, base,
                   passes>>

\* Config.fill_missing_fields(config); the tree is changed in place and
\* returned
FillCall ==
    /\ pc = "call"
    /\ config' = fill_missing_fields(config)
    /\ ret' = config'
    /\ pc' = "filled"
    /\ UNCHANGED <<path, fs, name, envs, argv, dict_config, err, base, passes>>

\* Config.fill_missing_fields called on its own result; ret keeps the
\* result of the first call
FillAgain ==
    /\ pc = "filled"
    /\ config' = fill_missing_fields(config)
    /\ pc' = "filled_twice"
    /\ UNCHANGED <<path, fs, name, envs, argv, dict_config, err, base, passes,
                   ret>>

NextCalls ==
    \/ IsWorkflowCall
    \/ ConvertCall
    \/ FillCall
    \/ FillAgain

SpecCalls == InitCalls /\ [][NextCalls]_vars

----------------------------------------------------------------------------
(* Properties of Config._update_config, checked under SpecMerge *)

\* the scalar s is the placeholder '<k>'
IsForm(s, k) == s = Str(Ph(k))

\* C1: after one merge every mapping entry whose value is '<k>' with k a key
\* of extra, and whose own name is no key of extra, holds extra[k], and the
\* merge returned without an error; the end-to-end scenario resolves to
\* {model: "qwen-max", retries: "5"}.
C1_PlaceholderInMapping ==
    pc = "returned" =>
        /\ \A p \in ItemPaths(base) : \A k \in DOMAIN envs :
              (IsForm(At(base, p), k) /\ NameAt(base, p) \notin DOMAIN envs)
              => (err = "none" /\ At(config, p) = Str(envs[k]))
        /\ (base = ScenarioDoc /\ envs = ScenarioCli)
              => config = Map(<<Entry(W("model"), Str(W("qwen-max"))),
                                Entry(W("retries"), Str(W("5")))>>)

Expected(old, extra) ==
    IF \E k \in DOMAIN extra : IsForm(old, k)
    THEN Str(extra[CHOOSE k \in DOMAIN extra : IsForm(old, k)])
    ELSE old

----------------------------------------------------------------------------
(* Properties of Config.from_task, checked under Spec *)

\* the keys both override maps hold
SharedKeys == DOMAIN envs \cap DOMAIN dict_config

KeyPositions(a) == {i \in DOMAIN a : i % 2 = 1}

\* a key that does not begin with '--', or a key without its value
Malformed(a) ==
    \/ \E i \in KeyPositions(a) : ~StartsWith(a[i], Prefix)
    \/ Len(a) % 2 = 1

\* C4: a malformed command line makes from_task fail with
\* MalformedArguments, and when it fails so no merge pass has touched the
\* tree.
C4_MalformedFatalBeforeMerge ==
    Malformed(argv) =>
        /\ pc \notin {"args_parsed", "cli_merged", "done"}
        /\ err = "MalformedArguments" => (passes = <<>> /\ config = base)

\* a command line made only of pairs '--key value'
OnlyPairs(a) ==
    /\ Len(a) % 2 = 0
    /\ \A i \in DOMAIN a : StartsWith(a[i], Prefix) <=> i % 2 = 1

\* C5: for a command line of pairs '--key value' only, parse_args returns
\* the mapping with exactly one entry key -> value for every pair.
C5_ParsesEveryPair ==
    OnlyPairs(argv) =>
        /\ err # "MalformedArguments"
        /\ pc \in {"args_parsed", "cli_merged", "done"} =>
              /\ DOMAIN dict_config =
                    {SubSeq(argv[i], 3, Len(argv[i])) : i \in KeyPositions(argv)}
              /\ \A i \in KeyPositions(argv) :
                    (\A j \in KeyPositions(argv) : j > i => argv[j] # argv[i])
                    => dict_config[SubSeq(argv[i], 3, Len(argv[i]))] = argv[i + 1]

\* the resolved path is a directory (given as one, or fetched)
IsDir == path.kind = "dir" /\ path.given # "file"

\* the first candidate of the fixed order that exists
First(f) ==
    IF Exists(f, W("workflow.yaml")) THEN W("workflow.yaml")
    ELSE IF Exists(f, W("workflow.yml")) THEN W("workflow.yml")
    ELSE IF Exists(f, W("agent.yaml")) THEN W("agent.yaml")
    ELSE W("agent.yml")

NoCandidate ==
    \A n \in {W("workflow.yaml"), W("workflow.yml"), W("agent.yaml"),
              W("agent.yml")} : fs[n] = None

\* what C7 says of a located document and of the configuration returned
LocatedAndNamed ==
    /\ pc \notin {"start", "failed"} => (name = First(fs) /\ base = fs[First(fs)])
    /\ pc = "done" =>
          /\ Get(config, W("name")) = Str(First(fs))
          /\ Get(config, W("local_dir")) = Str(path.dir)

\* C7 (as claimed): on a directory, resolution succeeds if and only if a
\* candidate exists, failing otherwise with NotFound before any pass; the
\* document is the first existing candidate and the result's name and
\* local_dir are the file name and the directory.
C7_DirectoryResolution ==
    IsDir =>
        /\ NoCandidate => pc \in {"start", "failed"}
        /\ pc = "failed" =>
              (NoCandidate /\ err = "NotFound" /\ passes = <<>> /\ config = None)
        /\ LocatedAndNamed

\* C7 (amended): on a directory the document is located if and only if a
\* candidate exists, the run failing otherwise with NotFound before any
\* pass; the document is the first existing candidate, and whenever the
\* resolution completes the result's name and local_dir are the file name and
\* the directory, whatever the override maps hold.
C7_DirectoryLocated ==
    IsDir =>
        /\ NoCandidate =>
              /\ pc \in {"start", "failed"}
              /\ pc = "failed" =>
                    (err = "NotFound" /\ passes = <<>> /\ config = None)
        /\ ~NoCandidate => err # "NotFound"
        /\ LocatedAndNamed

\* a directory holding only the two agent files was resolved with the key
\* name on the command line: the result is named agent.yaml
C7_Witness ==
    /\ IsDir
    /\ pc = "done"
    /\ fs[W("workflow.yaml")] = None /\ fs[W("workflow.yml")] = None
    /\ fs[W("agent.yaml")] # None /\ fs[W("agent.yml")] # None
    /\ W("name") \in DOMAIN dict_config
    /\ HasKey(base, W("name"))
    /\ Get(config, W("name")) = Str(W("agent.yaml"))

----------------------------------------------------------------------------
(* Properties of the direct calls, checked under SpecCalls *)

\* the tools mapping {a: {mcp: true, x: 1}, b: {mcp: false, x: 2}, c: {x: 3}}
ExampleTools ==
    Map(<<Entry(W("a"), Tool(1, Bool(TRUE))),
          Entry(W("b"), Tool(2, Bool(FALSE))),
          Entry(W("c"), Tool(3, None))>>)

Servers(r) == Get(r, W("mcpServers"))

NoTools == Get(base, W("tools")) \in {None, Null, Map(<<>>)}

\* C6 (as claimed): the projection has the single key mcpServers, holding
\* exactly the tools whose mcp is true or absent; the example yields
\* {mcpServers: {a: {x: 1}, c: {x: 3}}}; no tools yield {mcpServers: {}}.
C6_McpProjection ==
    pc = "convert_mcp" =>
        /\ ret.t = "map" /\ Keys(ret) = {W("mcpServers")}
        /\ ~NoTools =>
              Keys(Servers(ret)) =
                 {n \in Keys(Get(base, W("tools"))) :
                     Get(Get(Get(base, W("tools")), n), W("mcp"))
                        \in {None, Bool(TRUE)}}
        /\ Get(base, W("tools")) = ExampleTools =>
              Servers(ret) =
                 Map(<<Entry(W("a"), Map(<<Entry(W("x"), Num(1))>>)),
                       Entry(W("c"), Map(<<Entry(W("x"), Num(3))>>))>>)
        /\ NoTools => ret = Map(<<Entry(W("mcpServers"), Map(<<>>))>>)

\* C6 (amended): the projection has the single key mcpServers, holding
\* exactly the tools whose mcp is absent or truthy, each with a copy of its
\* whole entry, the mcp attribute included; the example yields
\* {mcpServers: {a: {mcp: true, x: 1}, c: {x: 3}}}; no tools yield
\* {mcpServers: {}}.
C6_McpProjectionKeepsEntry ==
    pc = "convert_mcp" =>
        /\ ret.t = "map" /\ Keys(ret) = {W("mcpServers")}
        /\ ~NoTools =>
              /\ Keys(Servers(ret)) =
                    {n \in Keys(Get(base, W("tools"))) :
                        Get(Get(Get(base, W("tools")), n), W("mcp"))
                           \in {None, Bool(TRUE), Num(1)}}
              /\ \A n \in Keys(Servers(ret)) :
                    Get(Servers(ret), n) = Get(Get(base, W("tools")), n)
        /\ Get(base, W("tools")) = ExampleTools =>
              Servers(ret) =
                 Map(<<Entry(W("a"), Tool(1, Bool(TRUE))),
                       Entry(W("c"), Tool(3, None))>>)
        /\ NoTools => ret = Map(<<Entry(W("mcpServers"), Map(<<>>))>>)

\* the example was projected: a with its mcp attribute and c, without b
C6_Witness ==
    /\ pc = "convert_mcp"
    /\ Get(base, W("tools")) = ExampleTools
    /\ Keys(Servers(ret)) = {W("a"), W("c")}
    /\ HasKey(Get(Servers(ret), W("a")), W("mcp"))

\* C8: is_workflow returns true exactly for the names workflow.yaml and
\* workflow.yml, false for every other name, and raises, never returning
\* false, when the name is unset or null.
C8_IsWorkflow ==
    pc = "is_workflow" =>
        LET n == Get(base, W("name"))
        IN  /\ n \in {None, Null} => ret.t = "error"
            /\ n \in {Str(W("workflow.yaml")), Str(W("workflow.yml"))}
                  => ret = Bool(TRUE)
            /\ n \notin {None, Null, Str(W("workflow.yaml")),
                         Str(W("workflow.yml"))} => ret = Bool(FALSE)

\* is_workflow raised on a configuration without a name
C8_Witness ==
    /\ pc = "is_workflow"
    /\ ~HasKey(base, W("name"))
    /\ ret.t = "error"

\* what fill_missing_fields makes of field k, whose default is d
Filled(k, d) ==
    IF Get(base, W(k)) \in {None, Null} THEN d ELSE Get(base, W(k))

\* C9: after fill_missing_fields tools and callbacks are not null: the empty
\* mapping and the empty sequence where they were absent or null, their old
\* values otherwise; every other field is unchanged; a second call changes
\* nothing.
C9_FillMissingFields ==
    /\ pc \in {"filled", "filled_twice"} =>
          /\ Get(config, W("tools")) = Filled("tools", Map(<<>>))
          /\ Get(config, W("callbacks")) = Filled("callbacks", List(<<>>))
          /\ Get(config, W("tools")) \notin {None, Null}
          /\ Get(config, W("callbacks")) \notin {None, Null}
          /\ Keys(config) = Keys(base) \cup {W("tools"), W("callbacks")}
          /\ \A k \in Keys(base) \ {W("tools"), W("callbacks")} :
                Get(config, k) = Get(base, k)
    /\ pc = "filled" => ret = config
    /\ pc = "filled_twice" => config = ret

\* a second call ran on a configuration whose tools were null and whose
\* callbacks were absent; both hold their empty defaults
C9_Witness ==
    /\ pc = "filled_twice"
    /\ Get(base, W("tools")) = Null
    /\ ~HasKey(base, W("callbacks"))
    /\ Get(config, W("tools")) = Map(<<>>)
    /\ Get(config, W("callbacks")) = List(<<>>)

====
